---- MODULE Spec2Model ----
(***************************************************************************)
(* Model of the Lynch screener (src/src/lynch/screener.py).                *)
(*                                                                         *)
(* Numbers.  A metric is an integer number of tenths (Scale = 10), so the  *)
(* float 1.5 is 15.  Optional[float] is a sequence of length 0 (None) or 1 *)
(* (the value).  Quotients the code computes with "/" (combined growth,    *)
(* PEG) are kept as exact fractions [num, den] with den > 0 and compared   *)
(* by cross-multiplication.  Dimension scores are integers in hundredths   *)
(* of a point (weight * percent), so 30 * 0.55 is 1650.  int(round(x)) is  *)
(* Python's round-half-to-even.  The configurations enumerated below are   *)
(* ones on which the float computation and the exact one agree for every   *)
(* combination of tiers.                                                   *)
(***************************************************************************)
EXTENDS Integers, Sequences, FiniteSets, TLC

\* ------------------------------------------------------------------ numbers
Scale == 10

None == <<>>
Some(x) == <<x>>
IsNone(o) == o = <<>>
Val(o) == o[1]

Q(n, d) == [num |-> n, den |-> d]
\* fraction q compared with a threshold t given in tenths
QGeq(q, t) == q.num * Scale >= t * q.den
QLeq(q, t) == q.num * Scale <= t * q.den
QLt(q, t) == q.num * Scale < t * q.den

RECURSIVE SumSeq(_)
SumSeq(s) == IF s = <<>> THEN 0 ELSE Head(s) + SumSeq(Tail(s))

MinOf(a, b) == IF a <= b THEN a ELSE b

RoundDown(c) == c \div 100
\* int(round(x)) for x >= 0 given in hundredths: round half to even
RoundPy(c) ==
    LET q == c \div 100
        r == c % 100
    IN  IF r < 50 THEN q
        ELSE IF r > 50 THEN q + 1
        ELSE IF q % 2 = 0 THEN q ELSE q + 1

\* ------------------------------------------------------- profiles and config
RiskProfile(n, de, ic, cr, fcf, gf) ==
    [name |-> n, max_debt_to_equity |-> de, min_interest_coverage |-> ic,
     min_current_ratio |-> cr, min_fcf_margin |-> fcf, growth_floor |-> gf]

ProfileNames == {"conservative", "balanced", "aggressive"}

ProfilesAggressiveCoverage35 ==
    [k \in ProfileNames |->
        CASE k = "conservative" -> RiskProfile("conservative", 10, 40, 12, 20, 60)
          [] k = "balanced"     -> RiskProfile("balanced", 15, 30, 10, 10, 40)
          [] k = "aggressive"   -> RiskProfile("aggressive", 20, 35, 8, 0, 20)]
PROFILES ==
    [k \in ProfileNames |->
        CASE k = "conservative" -> RiskProfile("conservative", 10, 40, 12, 20, 60)
          [] k = "balanced"     -> RiskProfile("balanced", 15, 30, 10, 10, 40)
          [] k = "aggressive"   -> RiskProfile("aggressive", 20, 20, 8, 0, 20)]

\* PROFILES.get(risk_tolerance, PROFILES["balanced"])
ResolveIgnoringCase(key) ==
    IF key \in ProfileNames THEN PROFILES[key]
    ELSE IF key = "Conservative" THEN PROFILES["conservative"]
    ELSE PROFILES["balanced"]
Resolve(key) ==
    IF key \in DOMAIN PROFILES THEN PROFILES[key] ELSE PROFILES["balanced"]

\* ScoringConfig with its default tier thresholds and the four weights given
ScoringConfig(vw, gw, qw, bw) ==
    [value_weight |-> vw, growth_weight |-> gw,
     quality_weight |-> qw, balance_weight |-> bw,
     peg_attractive |-> 10, peg_fair |-> 15, peg_rich |-> 20,
     growth_strong |-> 200, growth_healthy |-> 120, growth_moderate |-> 80,
     op_margin_strong |-> 200, op_margin_ok |-> 100,
     fcf_margin_strong |-> 150, fcf_margin_ok |-> 50,
     roe_strong |-> 200, roe_ok |-> 100,
     debt_light |-> 5, net_debt_low |-> 10, net_debt_ok |-> 30,
     interest_strong |-> 80, current_strong |-> 15]

DefaultConfigOverweight == ScoringConfig(40, 25, 25, 20)
DefaultConfigCurrentStrong1 ==
    [ScoringConfig(30, 25, 25, 20) EXCEPT !.current_strong = 10]
DEFAULT_CONFIG == ScoringConfig(30, 25, 25, 20)

\* ------------------------------------------------------------------ reasons
ReasonCode(lv, cd, msg, v, t) ==
    [level |-> lv, code |-> cd, message |-> msg, value |-> v, threshold |-> t]

\* _reason(level, code, message, value, threshold).  A message is the sequence
\* of its text and of the quantities its f-string interpolates; a value is a
\* fraction, a threshold a number of tenths.
_reason(lv, cd, label, v, t) ==
    ReasonCode(lv, cd, <<label, ToString(v.num), ToString(v.den)>>, Some(v), Some(t))

Codes(reasons) == {reasons[i].code : i \in DOMAIN reasons}
CountCode(reasons, cd) == Cardinality({i \in DOMAIN reasons : reasons[i].code = cd})

Scored(s, rs) == [score |-> s, reasons |-> rs]

\* ----------------------------------------------------------- derived metrics
\* _float_value: value if value is not None else None
_float_value(o) == IF ~IsNone(o) THEN o ELSE None

\* sum(growth_values) / len(growth_values), None on the empty list
MeanOf(growth_values) ==
    IF growth_values = <<>> THEN None
    ELSE Some(Q(SumSeq(growth_values), Scale * Len(growth_values)))

\* _combined_growth: mean of the present values, None when both are absent
CombinedGrowthZeroFill(f) ==
    IF IsNone(f.revenue_cagr_5y) /\ IsNone(f.eps_growth_5y) THEN None
    ELSE Some(Q(SumSeq(f.revenue_cagr_5y \o f.eps_growth_5y), Scale * 2))
_combined_growth(f) == MeanOf(f.revenue_cagr_5y \o f.eps_growth_5y)

\* pe_ratio / growth, None when pe or growth is None or growth <= 0
PegOfNoSignGuard(pe, growth) ==
    IF IsNone(pe) \/ IsNone(growth) \/ Val(growth).num = 0 THEN None
    ELSE IF Val(growth).num < 0
    THEN Some(Q(-(Val(pe) * Val(growth).den), -(Scale * Val(growth).num)))
    ELSE Some(Q(Val(pe) * Val(growth).den, Scale * Val(growth).num))

\* lynch/metrics.py, compute_peg_ratio: unknown also when P/E <= 0
compute_peg_ratio(pe_ratio, growth_pct) ==
    IF IsNone(pe_ratio) \/ IsNone(growth_pct) THEN None
    ELSE IF Val(pe_ratio) <= 0 \/ QLeq(Val(growth_pct), 0) THEN None
    ELSE Some(Q(Val(pe_ratio) * Val(growth_pct).den, Scale * Val(growth_pct).num))

PegOfGuardsPe(pe, growth) == compute_peg_ratio(pe, growth)
PegOf(pe, growth) ==
    IF IsNone(pe) \/ IsNone(growth) \/ QLeq(Val(growth), 0) THEN None
    ELSE Some(Q(Val(pe) * Val(growth).den, Scale * Val(growth).num))

\* _peg_ratio
_peg_ratio(f) == PegOf(f.pe_ratio, _combined_growth(f))

\* ------------------------------------------------------------ hard-fail gate
RequiredFields ==
    <<"pe_ratio", "revenue_cagr_5y", "eps_growth_5y", "debt_to_equity",
      "interest_coverage", "current_ratio", "fcf_margin">>

\* _missing_fields: the required names whose value is None, in dict order
MissingFieldsSkipFcf(f) ==
    SelectSeq(RequiredFields, LAMBDA n : n # "fcf_margin" /\ IsNone(f[n]))
_missing_fields(f) == SelectSeq(RequiredFields, LAMBDA n : IsNone(f[n]))

\* _score_one, the four threshold tests of the gate
DebtHigh(f, profile) ==
    ~IsNone(_float_value(f.debt_to_equity))
    /\ Val(f.debt_to_equity) > profile.max_debt_to_equity

CoverageLow(f, profile) ==
    ~IsNone(_float_value(f.interest_coverage))
    /\ Val(f.interest_coverage) < profile.min_interest_coverage

CurrentLow(f, profile) ==
    ~IsNone(_float_value(f.current_ratio))
    /\ Val(f.current_ratio) < profile.min_current_ratio

FcfWeakUnlessDebtHigh(f, profile) ==
    ~DebtHigh(f, profile)
    /\ ~IsNone(_float_value(f.fcf_margin))
    /\ Val(f.fcf_margin) < profile.min_fcf_margin
FcfWeak(f, profile) ==
    ~IsNone(_float_value(f.fcf_margin))
    /\ Val(f.fcf_margin) < profile.min_fcf_margin

\* _score_one, the hard_fail flag: set by missing data and by three of the tests
HardFailOnLowLiquidity(f, profile) ==
    \/ _missing_fields(f) # <<>>
    \/ DebtHigh(f, profile)
    \/ CoverageLow(f, profile)
    \/ CurrentLow(f, profile)
    \/ FcfWeak(f, profile)
HardFail(f, profile) ==
    \/ _missing_fields(f) # <<>>
    \/ DebtHigh(f, profile)
    \/ CoverageLow(f, profile)
    \/ FcfWeak(f, profile)

\* if test: reasons.append(reason)
AppendIf(test, reasons, reason) == IF test THEN Append(reasons, reason) ELSE reasons

\* a gate reason: level, code and message only
GateReason(lv, cd, label, v, t) ==
    ReasonCode(lv, cd, <<label, ToString(v), ToString(t)>>, None, None)

\* the MISSING_DATA reason, its message listing the missing names
MissingReasons(missing_fields) ==
    AppendIf(missing_fields # <<>>, <<>>,
             ReasonCode("negative", "MISSING_DATA",
                        <<"Missing required data">> \o missing_fields, None, None))

\* _score_one, the gate's reasons in emission order
GateReasons(f, profile) ==
    AppendIf(FcfWeak(f, profile),
      AppendIf(CurrentLow(f, profile),
        AppendIf(CoverageLow(f, profile),
          AppendIf(DebtHigh(f, profile),
            MissingReasons(_missing_fields(f)),
            GateReason("negative", "DEBT_HIGH", "Debt/Equity",
                       f.debt_to_equity, profile.max_debt_to_equity)),
          GateReason("negative", "INTEREST_COVERAGE_LOW", "Interest coverage",
                     f.interest_coverage, profile.min_interest_coverage)),
        GateReason("warning", "CURRENT_RATIO_LOW", "Current ratio",
                   f.current_ratio, profile.min_current_ratio)),
      GateReason("negative", "FCF_WEAK", "FCF margin",
                 f.fcf_margin, profile.min_fcf_margin))

ScoreValueRichBelow2(f, peg, reasons, config) ==
    IF IsNone(peg)
    THEN Scored(0, Append(reasons,
             ReasonCode("warning", "PEG_MISSING", <<"PEG ratio unavailable">>, None, None)))
    ELSE IF QLeq(Val(peg), config.peg_attractive)
    THEN Scored(config.value_weight * 100, Append(reasons,
             _reason("positive", "PEG_ATTRACTIVE", "PEG", Val(peg), config.peg_attractive)))
    ELSE IF QLeq(Val(peg), config.peg_fair)
    THEN Scored(config.value_weight * 80, Append(reasons,
             _reason("positive", "PEG_FAIR", "PEG", Val(peg), config.peg_fair)))
    ELSE IF QLt(Val(peg), config.peg_rich)
    THEN Scored(config.value_weight * 55, Append(reasons,
             _reason("warning", "PEG_RICH", "PEG", Val(peg), config.peg_rich)))
    ELSE Scored(config.value_weight * 25, Append(reasons,
             _reason("negative", "PEG_EXPENSIVE", "PEG", Val(peg), config.peg_rich)))
\* ------------------------------------------------------------------ scorers
\* _score_value: tiers on PEG, upper boundaries inclusive
_score_value(f, peg, reasons, config) ==
    IF IsNone(peg)
    THEN Scored(0, Append(reasons,
             ReasonCode("warning", "PEG_MISSING", <<"PEG ratio unavailable">>, None, None)))
    ELSE IF QLeq(Val(peg), config.peg_attractive)
    THEN Scored(config.value_weight * 100, Append(reasons,
             _reason("positive", "PEG_ATTRACTIVE", "PEG", Val(peg), config.peg_attractive)))
    ELSE IF QLeq(Val(peg), config.peg_fair)
    THEN Scored(config.value_weight * 80, Append(reasons,
             _reason("positive", "PEG_FAIR", "PEG", Val(peg), config.peg_fair)))
    ELSE IF QLeq(Val(peg), config.peg_rich)
    THEN Scored(config.value_weight * 55, Append(reasons,
             _reason("warning", "PEG_RICH", "PEG", Val(peg), config.peg_rich)))
    ELSE Scored(config.value_weight * 25, Append(reasons,
             _reason("negative", "PEG_EXPENSIVE", "PEG", Val(peg), config.peg_rich)))

GrowthModerateAbove8(growth, profile, reasons, config) ==
    IF IsNone(growth)
    THEN Scored(0, Append(reasons,
             ReasonCode("warning", "GROWTH_MISSING", <<"Growth metrics missing">>, None, None)))
    ELSE IF QGeq(Val(growth), config.growth_strong)
    THEN Scored(config.growth_weight * 100, Append(reasons,
             _reason("positive", "GROWTH_STRONG", "Growth", Val(growth), config.growth_strong)))
    ELSE IF QGeq(Val(growth), config.growth_healthy)
    THEN Scored(config.growth_weight * 80, Append(reasons,
             _reason("positive", "GROWTH_HEALTHY", "Growth", Val(growth), config.growth_healthy)))
    ELSE IF ~QLeq(Val(growth), config.growth_moderate)
    THEN Scored(config.growth_weight * 60, Append(reasons,
             _reason("warning", "GROWTH_MODERATE", "Growth", Val(growth), config.growth_moderate)))
    ELSE IF QGeq(Val(growth), profile.growth_floor)
    THEN Scored(config.growth_weight * 32, Append(reasons,
             _reason("warning", "GROWTH_LOW", "Growth", Val(growth), profile.growth_floor)))
    ELSE Scored(config.growth_weight * 8, Append(reasons,
             _reason("negative", "GROWTH_WEAK", "Growth", Val(growth), profile.growth_floor)))
\* _score_growth after growth = _combined_growth(fundamentals): tiers on the
\* combined growth, lower boundaries inclusive
GrowthTier(growth, profile, reasons, config) ==
    IF IsNone(growth)
    THEN Scored(0, Append(reasons,
             ReasonCode("warning", "GROWTH_MISSING", <<"Growth metrics missing">>, None, None)))
    ELSE IF QGeq(Val(growth), config.growth_strong)
    THEN Scored(config.growth_weight * 100, Append(reasons,
             _reason("positive", "GROWTH_STRONG", "Growth", Val(growth), config.growth_strong)))
    ELSE IF QGeq(Val(growth), config.growth_healthy)
    THEN Scored(config.growth_weight * 80, Append(reasons,
             _reason("positive", "GROWTH_HEALTHY", "Growth", Val(growth), config.growth_healthy)))
    ELSE IF QGeq(Val(growth), config.growth_moderate)
    THEN Scored(config.growth_weight * 60, Append(reasons,
             _reason("warning", "GROWTH_MODERATE", "Growth", Val(growth), config.growth_moderate)))
    ELSE IF QGeq(Val(growth), profile.growth_floor)
    THEN Scored(config.growth_weight * 32, Append(reasons,
             _reason("warning", "GROWTH_LOW", "Growth", Val(growth), profile.growth_floor)))
    ELSE Scored(config.growth_weight * 8, Append(reasons,
             _reason("negative", "GROWTH_WEAK", "Growth", Val(growth), profile.growth_floor)))

\* _score_growth
_score_growth(f, profile, reasons, config) ==
    GrowthTier(_combined_growth(f), profile, reasons, config)

\* one three-tier sub-metric of _score_quality: its points and its reason
QualityTier(o, label, strong, ok, w, pStrong, pOk, pLow, cStrong, cOk, cLow) ==
    IF IsNone(o) THEN Scored(0, <<>>)
    ELSE IF Val(o) >= strong
    THEN Scored(w * pStrong, <<_reason("positive", cStrong, label, Q(Val(o), Scale), strong)>>)
    ELSE IF Val(o) >= ok
    THEN Scored(w * pOk, <<_reason("warning", cOk, label, Q(Val(o), Scale), ok)>>)
    ELSE Scored(w * pLow, <<_reason("warning", cLow, label, Q(Val(o), Scale), ok)>>)

QualityPartsRoe38(f, config) ==
    <<QualityTier(f.operating_margin, "Operating margin",
                  config.op_margin_strong, config.op_margin_ok,
                  config.quality_weight, 40, 28, 16,
                  "MARGIN_STRONG", "MARGIN_OK", "MARGIN_THIN"),
      QualityTier(f.fcf_margin, "FCF margin",
                  config.fcf_margin_strong, config.fcf_margin_ok,
                  config.quality_weight, 32, 20, 8,
                  "FCF_STRONG", "FCF_OK", "FCF_THIN"),
      QualityTier(f.roe, "ROE",
                  config.roe_strong, config.roe_ok,
                  config.quality_weight, 38, 20, 8,
                  "ROE_STRONG", "ROE_OK", "ROE_WEAK")>>
\* the three sub-metrics of _score_quality, in order
QualityParts(f, config) ==
    <<QualityTier(f.operating_margin, "Operating margin",
                  config.op_margin_strong, config.op_margin_ok,
                  config.quality_weight, 40, 28, 16,
                  "MARGIN_STRONG", "MARGIN_OK", "MARGIN_THIN"),
      QualityTier(f.fcf_margin, "FCF margin",
                  config.fcf_margin_strong, config.fcf_margin_ok,
                  config.quality_weight, 32, 20, 8,
                  "FCF_STRONG", "FCF_OK", "FCF_THIN"),
      QualityTier(f.roe, "ROE",
                  config.roe_strong, config.roe_ok,
                  config.quality_weight, 28, 20, 8,
                  "ROE_STRONG", "ROE_OK", "ROE_WEAK")>>

\* sum(scores) and the reasons of a sequence of sub-metric results
RECURSIVE PartsScore(_)
PartsScore(parts) ==
    IF parts = <<>> THEN 0 ELSE Head(parts).score + PartsScore(Tail(parts))

RECURSIVE PartsReasons(_)
PartsReasons(parts) ==
    IF parts = <<>> THEN <<>> ELSE Head(parts).reasons \o PartsReasons(Tail(parts))

\* the sum of the three quality contributions before the cap
QualityUncapped(f, config) == PartsScore(QualityParts(f, config))

\* min(sum, weight) with the sub-metrics' reasons appended
Capped(parts, reasons, weight) ==
    Scored(MinOf(PartsScore(parts), weight * 100), reasons \o PartsReasons(parts))

ScoreQualityOutOf100(f, reasons, config) ==
    IF IsNone(f.operating_margin) /\ IsNone(f.fcf_margin) /\ IsNone(f.roe)
    THEN Scored(0, reasons)
    ELSE Capped(QualityParts(f, [config EXCEPT !.quality_weight = 100]), reasons, 100)
\* _score_quality: 0 when no sub-metric is present (scores is empty), else
\* min(sum(scores), quality_weight)
_score_quality(f, reasons, config) ==
    IF IsNone(f.operating_margin) /\ IsNone(f.fcf_margin) /\ IsNone(f.roe)
    THEN Scored(0, reasons)
    ELSE Capped(QualityParts(f, config), reasons, config.quality_weight)

\* one two-tier sub-check of _score_balance with ">=" tests (coverage, current)
BalanceAtLeast(o, label, strong, ok, w, pStrong, pOk, cStrong, cOk) ==
    IF IsNone(o) THEN Scored(0, <<>>)
    ELSE IF Val(o) >= strong
    THEN Scored(w * pStrong, <<_reason("positive", cStrong, label, Q(Val(o), Scale), strong)>>)
    ELSE IF Val(o) >= ok
    THEN Scored(w * pOk, <<_reason("warning", cOk, label, Q(Val(o), Scale), ok)>>)
    ELSE Scored(0, <<>>)

\* the debt/equity sub-check: "<=" tests, no reason above the profile ceiling
BalanceDebt(o, light, max, w) ==
    IF IsNone(o) THEN Scored(0, <<>>)
    ELSE IF Val(o) <= light
    THEN Scored(w * 30, <<_reason("positive", "DEBT_LIGHT", "Debt/Equity", Q(Val(o), Scale), light)>>)
    ELSE IF Val(o) <= max
    THEN Scored(w * 20, <<_reason("warning", "DEBT_MANAGEABLE", "Debt/Equity", Q(Val(o), Scale), max)>>)
    ELSE Scored(0, <<>>)

\* the net-debt/EBITDA sub-check: a negative reason and no points when high
BalanceNetDebt(o, low, ok, w) ==
    IF IsNone(o) THEN Scored(0, <<>>)
    ELSE IF Val(o) <= low
    THEN Scored(w * 30, <<_reason("positive", "NET_DEBT_LOW", "Net debt/EBITDA", Q(Val(o), Scale), low)>>)
    ELSE IF Val(o) <= ok
    THEN Scored(w * 20, <<_reason("warning", "NET_DEBT_OK", "Net debt/EBITDA", Q(Val(o), Scale), ok)>>)
    ELSE Scored(0, <<_reason("negative", "NET_DEBT_HIGH", "Net debt/EBITDA", Q(Val(o), Scale), ok)>>)

\* the four sub-checks of _score_balance, in order
BalanceParts(f, profile, config) ==
    <<BalanceDebt(f.debt_to_equity, config.debt_light, profile.max_debt_to_equity,
                  config.balance_weight),
      BalanceNetDebt(f.net_debt_to_ebitda, config.net_debt_low, config.net_debt_ok,
                     config.balance_weight),
      BalanceAtLeast(f.interest_coverage, "Interest coverage", config.interest_strong,
                     profile.min_interest_coverage, config.balance_weight, 25, 15,
                     "COVERAGE_STRONG", "COVERAGE_OK"),
      BalanceAtLeast(f.current_ratio, "Current ratio", config.current_strong,
                     profile.min_current_ratio, config.balance_weight, 15, 10,
                     "CURRENT_STRONG", "CURRENT_OK")>>

\* the sum of the four balance contributions before the cap
BalanceUncapped(f, profile, config) == PartsScore(BalanceParts(f, profile, config))

\* _score_balance: min(score, balance_weight)
_score_balance(f, profile, reasons, config) ==
    Capped(BalanceParts(f, profile, config), reasons, config.balance_weight)

\* ------------------------------------------------------- rating and category
RatingStrongAbove80(score, hard_fail) ==
    IF hard_fail THEN "Fail"
    ELSE IF score > 80 THEN "Strong"
    ELSE IF score >= 60 THEN "Watch"
    ELSE "Caution"
RatingWatchAbove60(score, hard_fail) ==
    IF hard_fail THEN "Fail"
    ELSE IF score >= 80 THEN "Strong"
    ELSE IF score > 60 THEN "Watch"
    ELSE "Caution"
_rating_for_score(score, hard_fail) ==
    IF hard_fail THEN "Fail"
    ELSE IF score >= 80 THEN "Strong"
    ELSE IF score >= 60 THEN "Watch"
    ELSE "Caution"

CategoryAssetPlayBelow12(growth, pe) ==
    IF IsNone(growth) THEN "unknown"
    ELSE IF QGeq(Val(growth), 150) THEN "fast grower"
    ELSE IF QGeq(Val(growth), 80) THEN "stalwart"
    ELSE IF QGeq(Val(growth), 30) THEN "slow grower"
    ELSE IF QLt(Val(growth), 0) THEN "turnaround"
    ELSE IF ~IsNone(pe) /\ Val(pe) < 120 THEN "asset play"
    ELSE "slow grower"
\* _category_for_fundamentals after growth = _combined_growth(fundamentals)
CategoryOf(growth, pe) ==
    IF IsNone(growth) THEN "unknown"
    ELSE IF QGeq(Val(growth), 150) THEN "fast grower"
    ELSE IF QGeq(Val(growth), 80) THEN "stalwart"
    ELSE IF QGeq(Val(growth), 30) THEN "slow grower"
    ELSE IF QLt(Val(growth), 0) THEN "turnaround"
    ELSE IF ~IsNone(pe) /\ Val(pe) <= 120 THEN "asset play"
    ELSE "slow grower"

_category_for_fundamentals(f) == CategoryOf(_combined_growth(f), f.pe_ratio)

\* ---------------------------------------------------------------- _score_one
\* the locals of _score_one once the four scorers have run
Locals(hard_fail, peg, value, growth, quality, balance) ==
    [hard_fail |-> hard_fail, peg |-> peg,
     value |-> value.score, growth |-> growth.score,
     quality |-> quality.score, balance |-> balance.score,
     reasons |-> balance.reasons]

\* the scorers run in order, each appending to the list the one before left
AfterQuality(f, profile, config, hard_fail, peg, value, growth, quality) ==
    Locals(hard_fail, peg, value, growth, quality,
           _score_balance(f, profile, quality.reasons, config))

AfterGrowth(f, profile, config, hard_fail, peg, value, growth) ==
    AfterQuality(f, profile, config, hard_fail, peg, value, growth,
                 _score_quality(f, growth.reasons, config))

AfterValue(f, profile, config, hard_fail, peg, value) ==
    AfterGrowth(f, profile, config, hard_fail, peg, value,
                _score_growth(f, profile, value.reasons, config))

AfterGateStopOnFail(f, profile, config, reasons, peg) ==
    IF HardFail(f, profile)
    THEN Locals(TRUE, None, Scored(0, reasons), Scored(0, reasons),
                Scored(0, reasons), Scored(0, reasons))
    ELSE AfterValue(f, profile, config, FALSE, peg,
                    _score_value(f, peg, reasons, config))
AfterGate(f, profile, config, reasons, peg) ==
    AfterValue(f, profile, config, HardFail(f, profile), peg,
               _score_value(f, peg, reasons, config))

\* _score_one, lines 93-152: gate, PEG and score_breakdown
Breakdown(f, profile, config) ==
    AfterGate(f, profile, config, GateReasons(f, profile), _peg_ratio(f))

\* raw_score = sum(score_breakdown.values())
RawOf(b) == b.value + b.growth + b.quality + b.balance

RawScore(f, profile, config) == RawOf(Breakdown(f, profile, config))

\* score = 0 if hard_fail else int(round(raw_score))
FinalScoreKeepsRaw(b) == RoundPy(RawOf(b))
FinalScore(b) == IF b.hard_fail THEN 0 ELSE RoundPy(RawOf(b))

Metrics(f, peg) ==
    [pe_ratio |-> f.pe_ratio, peg_ratio |-> peg,
     revenue_cagr_5y |-> f.revenue_cagr_5y, eps_growth_5y |-> f.eps_growth_5y,
     operating_margin |-> f.operating_margin, fcf_margin |-> f.fcf_margin,
     roe |-> f.roe, debt_to_equity |-> f.debt_to_equity,
     net_debt_to_ebitda |-> f.net_debt_to_ebitda,
     interest_coverage |-> f.interest_coverage, current_ratio |-> f.current_ratio]

ScreenResult(f, b, score) ==
    [ticker |-> f.ticker, name |-> f.name, score |-> score,
     rating |-> _rating_for_score(score, b.hard_fail),
     category |-> _category_for_fundamentals(f),
     metrics |-> Metrics(f, b.peg), reasons |-> b.reasons]

Scored1(f, b) == ScreenResult(f, b, FinalScore(b))

_score_one(f, profile, config) == Scored1(f, Breakdown(f, profile, config))

\* ------------------------------------------------------- screen_fundamentals
\* sorted(results, key=score, reverse=True): stable, equal scores keep their order
InsertAt(sorted, r, k) ==
    SubSeq(sorted, 1, k) \o <<r>> \o SubSeq(sorted, k + 1, Len(sorted))

InsertDescBeforeTies(sorted, r) ==
    InsertAt(sorted, r, Cardinality({i \in DOMAIN sorted : sorted[i].score > r.score}))
InsertDesc(sorted, r) ==
    InsertAt(sorted, r, Cardinality({i \in DOMAIN sorted : sorted[i].score >= r.score}))

RECURSIVE SortFrom(_, _)
SortFrom(acc, rest) ==
    IF rest = <<>> THEN acc ELSE SortFrom(InsertDesc(acc, Head(rest)), Tail(rest))

Reversed(d) == [i \in DOMAIN d |-> d[Len(d) + 1 - i]]

SortedAscending(results) == Reversed(SortFrom(<<>>, results))
SortedWithoutFailed(results) ==
    SortFrom(<<>>, SelectSeq(results, LAMBDA r : r.rating # "Fail"))
SortedByScoreDesc(results) == SortFrom(<<>>, results)

\* results = [_score_one(item, profile, config) for item in fundamentals]
ScoreAll(fs, profile, config) ==
    [i \in DOMAIN fs |-> _score_one(fs[i], profile, config)]

screen_fundamentals(fs, risk_tolerance, config) ==
    SortedByScoreDesc(ScoreAll(fs, Resolve(risk_tolerance), config))

\* ------------------------------------------------------------ the input space
Fundamentals(t, pe, rev, eps, op, fcf, roe, de, nd, ic, cr) ==
    [ticker |-> t, name |-> t,
     pe_ratio |-> pe, revenue_cagr_5y |-> rev, eps_growth_5y |-> eps,
     operating_margin |-> op, fcf_margin |-> fcf, roe |-> roe,
     debt_to_equity |-> de, net_debt_to_ebitda |-> nd,
     interest_coverage |-> ic, current_ratio |-> cr]

Opt(S) == {None} \cup {Some(x) : x \in S}

\* the best company: every metric in its top tier, PEG 0.8, growth 25%
Best ==
    Fundamentals("T", Some(200), Some(250), Some(250), Some(200), Some(150),
                 Some(200), Some(5), Some(10), Some(80), Some(15))

GrowthValues == {-20, 0, 20, 30, 40, 60, 80, 120, 150, 200, 250}
PeValues == {-50, 0, 100, 120, 130, 200, 300, 400, 600}

\* the companies batches are drawn from: two that tie, failures, a duplicate ticker
Universe ==
    {[Best EXCEPT !.ticker = "AAA", !.name = "Alpha"],
     [Best EXCEPT !.ticker = "BBB", !.name = "Beta"],
     [Best EXCEPT !.ticker = "CCC", !.name = "Gamma", !.pe_ratio = Some(600),
                  !.operating_margin = Some(50), !.net_debt_to_ebitda = Some(40)],
     [Best EXCEPT !.ticker = "DDD", !.name = "Delta", !.debt_to_equity = Some(18),
                  !.fcf_margin = Some(-10)],
     [Best EXCEPT !.ticker = "EEE", !.name = "Epsilon", !.pe_ratio = None],
     [Best EXCEPT !.ticker = "AAA", !.name = "Alpha again", !.revenue_cagr_5y = Some(80),
                  !.eps_growth_5y = Some(80), !.roe = None]}

MaxBatch == 3

RECURSIVE SeqsUpTo(_, _)
SeqsUpTo(S, n) ==
    IF n = 0 THEN {<<>>}
    ELSE LET shorter == SeqsUpTo(S, n - 1)
         IN  shorter \cup {Append(q, x) : q \in shorter, x \in S}

Batches == SeqsUpTo(Universe, MaxBatch)

RiskKeys == ProfileNames \cup {"", "Conservative", "moderate"}

\* the default rubric and overrides whose four weights sum to 100
Configs ==
    {DEFAULT_CONFIG, ScoringConfig(10, 20, 30, 40), ScoringConfig(100, 0, 0, 0),
     ScoringConfig(0, 0, 0, 100)}

\* ------------------------------------------------------------ the state machine
\* frames holds the locals of the _score_one calls of a batch whose companies
\* are scored step by step; it stays empty when the call runs in one step
VARIABLES fundamentals, risk_tolerance, config, results, pc, frames

vars == <<fundamentals, risk_tolerance, config, results, pc, frames>>

\* one company, every field absent, poor or in its top tier
InitCoarse ==
    /\ \E pe \in Opt({200, 600}), rev \in Opt({-20, 250}), eps \in Opt({20, 250}),
          op \in Opt({50, 200}), fcf \in Opt({5, 150}), roe \in Opt({50, 200}),
          de \in Opt({5, 18}), nd \in Opt({10, 40}), ic \in Opt({25, 80}),
          cr \in Opt({9, 15}) :
            fundamentals = <<Fundamentals("T", pe, rev, eps, op, fcf, roe, de, nd, ic, cr)>>
    /\ risk_tolerance \in ProfileNames
    /\ config = DEFAULT_CONFIG

\* one company, P/E and the two growth rates at and around every tier boundary,
\* with a current ratio above or below every profile's floor
InitGrowth ==
    /\ \E pe \in Opt(PeValues), rev \in Opt(GrowthValues), eps \in Opt(GrowthValues),
          cr \in {7, 15} :
            fundamentals = <<[Best EXCEPT !.pe_ratio = pe, !.revenue_cagr_5y = rev,
                                          !.eps_growth_5y = eps,
                                          !.current_ratio = Some(cr)]>>
    /\ risk_tolerance \in RiskKeys
    /\ config \in Configs

\* one company, the three quality sub-metrics at and around every tier boundary
InitQuality ==
    /\ \E op \in Opt({50, 99, 100, 199, 200}),
          fcf \in Opt({-10, 0, 5, 10, 15, 20, 49, 50, 149, 150}),
          roe \in Opt({50, 99, 100, 199, 200}) :
            fundamentals = <<[Best EXCEPT !.operating_margin = op, !.fcf_margin = fcf,
                                          !.roe = roe]>>
    /\ risk_tolerance \in RiskKeys
    /\ config \in Configs

\* one company, the four balance sub-metrics at and around every tier and
\* profile boundary
InitBalance ==
    /\ \E de \in Opt({0, 5, 6, 10, 11, 15, 16, 20, 21}),
          nd \in Opt({-5, 10, 11, 30, 31}),
          ic \in Opt({19, 20, 29, 30, 39, 40, 79, 80}),
          cr \in Opt({7, 8, 9, 10, 11, 12, 14, 15}) :
            fundamentals = <<[Best EXCEPT !.debt_to_equity = de, !.net_debt_to_ebitda = nd,
                                          !.interest_coverage = ic, !.current_ratio = cr]>>
    /\ risk_tolerance \in RiskKeys
    /\ config = DEFAULT_CONFIG

\* a batch of up to MaxBatch companies
InitBatch ==
    /\ fundamentals \in Batches
    /\ risk_tolerance \in RiskKeys
    /\ config \in Configs

\* a caller holds an input batch, a risk-tolerance key and a rubric
Init ==
    /\ InitCoarse \/ InitGrowth \/ InitQuality \/ InitBalance \/ InitBatch
    /\ results = <<>>
    /\ pc = "call"
    /\ frames = <<>>

\* screen_fundamentals(fundamentals, risk_tolerance, config) runs and returns
ScreenFundamentals ==
    /\ pc = "call"
    /\ results' = screen_fundamentals(fundamentals, risk_tolerance, config)
    /\ pc' = "done"
    /\ UNCHANGED <<fundamentals, risk_tolerance, config, frames>>

Next == ScreenFundamentals

Spec == Init /\ [][Next]_vars

\* ------------------------------------- the per-company scorings, step by step
MaxInterleaved == 2

\* the locals of a _score_one call that has not run yet
NewFrame ==
    [stage |-> "new", hard_fail |-> FALSE, peg |-> None, reasons |-> <<>>,
     value |-> 0, growth |-> 0, quality |-> 0, balance |-> 0, result |-> None]

\* the list a _score_one call appends its reasons to: a fresh, empty one
StartReasonsShared(fs, i) ==
    IF \E j \in DOMAIN fs : j # i /\ fs[j].stage # "new"
    THEN fs[CHOOSE j \in DOMAIN fs : j # i /\ fs[j].stage # "new"].reasons
    ELSE <<>>
StartReasons(fs, i) == <<>>

\* a batch whose companies are scored independently of one another
InitSteps ==
    /\ fundamentals \in SeqsUpTo(Universe, MaxInterleaved)
    /\ risk_tolerance \in ProfileNames
    /\ config = DEFAULT_CONFIG
    /\ results = <<>>
    /\ pc = "scoring"
    /\ frames = [i \in DOMAIN fundamentals |-> NewFrame]

\* a frame after a scorer returned s: its points kept, its reasons appended
AfterScorer(frame, stage, dimension, s) ==
    [frame EXCEPT !.stage = stage, ![dimension] = s.score, !.reasons = s.reasons]

StepTo(i, frame) ==
    /\ frames' = [frames EXCEPT ![i] = frame]
    /\ UNCHANGED <<fundamentals, risk_tolerance, config, results, pc>>

\* _score_one, lines 93-146: the reasons list, the gate and the PEG
Gate(i) ==
    /\ pc = "scoring" /\ frames[i].stage = "new"
    /\ StepTo(i, [frames[i] EXCEPT
                     !.stage = "gate",
                     !.reasons = StartReasons(frames, i)
                                     \o GateReasons(fundamentals[i], Resolve(risk_tolerance)),
                     !.hard_fail = HardFail(fundamentals[i], Resolve(risk_tolerance)),
                     !.peg = _peg_ratio(fundamentals[i])])

ScoreValue(i) ==
    /\ pc = "scoring" /\ frames[i].stage = "gate"
    /\ StepTo(i, AfterScorer(frames[i], "value", "value",
                    _score_value(fundamentals[i], frames[i].peg, frames[i].reasons, config)))

ScoreGrowth(i) ==
    /\ pc = "scoring" /\ frames[i].stage = "value"
    /\ StepTo(i, AfterScorer(frames[i], "growth", "growth",
                    _score_growth(fundamentals[i], Resolve(risk_tolerance),
                                  frames[i].reasons, config)))

ScoreQuality(i) ==
    /\ pc = "scoring" /\ frames[i].stage = "growth"
    /\ StepTo(i, AfterScorer(frames[i], "quality", "quality",
                    _score_quality(fundamentals[i], frames[i].reasons, config)))

ScoreBalance(i) ==
    /\ pc = "scoring" /\ frames[i].stage = "quality"
    /\ StepTo(i, AfterScorer(frames[i], "balance", "balance",
                    _score_balance(fundamentals[i], Resolve(risk_tolerance),
                                   frames[i].reasons, config)))

\* _score_one, lines 154-181: the score, the rating and the ScreenResult
Return(i) ==
    /\ pc = "scoring" /\ frames[i].stage = "balance"
    /\ StepTo(i, [frames[i] EXCEPT !.stage = "returned",
                                   !.result = Some(Scored1(fundamentals[i], frames[i]))])

\* every company has its result: the list in input order is ranked
Rank ==
    /\ pc = "scoring"
    /\ \A i \in DOMAIN frames : frames[i].stage = "returned"
    /\ results' = SortedByScoreDesc([i \in DOMAIN frames |-> Val(frames[i].result)])
    /\ pc' = "done"
    /\ UNCHANGED <<fundamentals, risk_tolerance, config, frames>>

NextSteps ==
    \/ \E i \in DOMAIN frames : Gate(i)
    \/ \E i \in DOMAIN frames : ScoreValue(i)
    \/ \E i \in DOMAIN frames : ScoreGrowth(i)
    \/ \E i \in DOMAIN frames : ScoreQuality(i)
    \/ \E i \in DOMAIN frames : ScoreBalance(i)
    \/ \E i \in DOMAIN frames : Return(i)
    \/ Rank

SpecSteps == InitSteps /\ [][NextSteps]_vars

\* ------------------------------------------------------------------- claims
Done == pc = "done"

\* a call on one company: its result is results[1]
Single == Len(fundamentals) = 1

TheProfile == Resolve(risk_tolerance)

HardFailCodes == {"MISSING_DATA", "DEBT_HIGH", "INTEREST_COVERAGE_LOW", "FCF_WEAK"}

\* a hard-fail condition fired: the gate emitted one of its failing reasons
HardFailed(r) == Codes(r.reasons) \cap HardFailCodes # {}

\* C1: every returned score is an integer between 0 and 100, for every
\* snapshot, every risk-tolerance key, and the default rubric or any override
\* whose weights sum to 100.
C1_ScoreInRange ==
    Done => \A i \in DOMAIN results : results[i].score \in 0..100

\* a batch under an overriding rubric that returns both a 100 and a 0
C1_Witness ==
    /\ Done
    /\ config # DEFAULT_CONFIG
    /\ \E i, j \in DOMAIN results : results[i].score = 100 /\ results[j].score = 0

\* C2: whenever the gate emitted MISSING_DATA, DEBT_HIGH, INTEREST_COVERAGE_LOW
\* or FCF_WEAK for a company, its result has score 0 and rating "Fail",
\* whatever the dimension scorers contributed.
C2_HardFailZero ==
    Done => \A i \in DOMAIN results :
                HardFailed(results[i]) =>
                    results[i].score = 0 /\ results[i].rating = "Fail"

\* a hard-failed company whose four dimensions add up to 80 points or more
C2_Witness ==
    /\ Done /\ Single
    /\ HardFailed(results[1])
    /\ RawScore(fundamentals[1], TheProfile, config) >= 8000
    /\ results[1].score = 0

\* the gate as the claim words it: the seven fields present, debt/equity not
\* above the ceiling, coverage and FCF margin not below their floors
PassesGate(f, profile) ==
    /\ \A n \in {"pe_ratio", "revenue_cagr_5y", "eps_growth_5y", "debt_to_equity",
                 "interest_coverage", "current_ratio", "fcf_margin"} : ~IsNone(f[n])
    /\ Val(f.debt_to_equity) <= profile.max_debt_to_equity
    /\ Val(f.interest_coverage) >= profile.min_interest_coverage
    /\ Val(f.fcf_margin) >= profile.min_fcf_margin

\* C3: under the default rubric and each profile, score = 0 exactly when a
\* hard-fail condition fired; a snapshot that passes the gate never scores 0.
C3_ZeroIffHardFail ==
    (Done /\ config = DEFAULT_CONFIG) =>
        /\ \A i \in DOMAIN results :
               results[i].score = 0 <=> HardFailed(results[i])
        /\ Single => (PassesGate(fundamentals[1], TheProfile)
                          <=> results[1].score # 0)

\* the weakest company that passes the gate: no P/E-to-growth value (growth
\* is 0), poor quality, poor balance, and still a score above 0
C3_Witness ==
    /\ Done /\ Single /\ config = DEFAULT_CONFIG
    /\ PassesGate(fundamentals[1], TheProfile)
    /\ IsNone(results[1].metrics.peg_ratio)
    /\ "GROWTH_WEAK" \in Codes(results[1].reasons)
    /\ results[1].score \in 1..20

\* C4: the returned sequence is sorted by score, non-increasing, for every
\* batch (any length, order, duplicates).
C4_SortedDescending ==
    Done => \A i \in 1..(Len(results) - 1) : results[i].score >= results[i + 1].score

\* a batch given in ascending order of score, with a tie, comes back reordered
C4_Witness ==
    /\ Done
    /\ Len(results) >= 3
    /\ results[1].score > results[Len(results)].score
    /\ results[1].ticker = fundamentals[Len(fundamentals)].ticker
    /\ \E i \in 1..(Len(results) - 1) : results[i].score = results[i + 1].score

\* the names of the absent required fields of a snapshot
Absent(f) ==
    {n \in {"pe_ratio", "revenue_cagr_5y", "eps_growth_5y", "debt_to_equity",
            "interest_coverage", "current_ratio", "fcf_margin"} : IsNone(f[n])}

\* the reasons of a result that carry a given code
WithCode(r, cd) == SelectSeq(r.reasons, LAMBDA x : x.code = cd)

\* the field names a MISSING_DATA message lists after its text
NamesListed(reason) == Tail(reason.message)

\* C5: a snapshot with any required field absent gets exactly one MISSING_DATA
\* reason, of level negative, naming exactly the absent required fields, is
\* hard-failed and scores 0, whatever its other metrics and the profile; with
\* none absent there is no MISSING_DATA reason.
C5_MissingData ==
    (Done /\ Single) =>
        LET f == fundamentals[1]
            r == results[1]
            m == WithCode(r, "MISSING_DATA")
        IN  IF Absent(f) # {}
            THEN /\ Len(m) = 1
                 /\ m[1].level = "negative"
                 /\ Len(NamesListed(m[1])) = Cardinality(Absent(f))
                 /\ {NamesListed(m[1])[k] : k \in DOMAIN NamesListed(m[1])} = Absent(f)
                 /\ r.score = 0
                 /\ r.rating = "Fail"
            ELSE m = <<>>

\* only the FCF margin is absent, every other metric is in its top tier
C5_Witness ==
    /\ Done /\ Single
    /\ Absent(fundamentals[1]) = {"fcf_margin"}
    /\ Codes(results[1].reasons) \cap HardFailCodes = {"MISSING_DATA"}
    /\ RawScore(fundamentals[1], TheProfile, config) >= 8000
    /\ results[1].score = 0

\* C6: each of DEBT_HIGH, INTEREST_COVERAGE_LOW, CURRENT_RATIO_LOW and FCF_WEAK
\* is among a result's reasons exactly when its own metric is present and
\* violates the resolved profile's threshold, whatever else fired; debt/equity
\* above the ceiling with FCF margin below the floor gives rating Fail and
\* both DEBT_HIGH and FCF_WEAK.
C6_GateIndependent ==
    (Done /\ Single) =>
        LET f  == fundamentals[1]
            cs == Codes(results[1].reasons)
            p  == TheProfile
            debt == ~IsNone(f.debt_to_equity)
                    /\ Val(f.debt_to_equity) > p.max_debt_to_equity
            fcf  == ~IsNone(f.fcf_margin) /\ Val(f.fcf_margin) < p.min_fcf_margin
        IN  /\ "DEBT_HIGH" \in cs <=> debt
            /\ "INTEREST_COVERAGE_LOW" \in cs <=>
                   (~IsNone(f.interest_coverage)
                    /\ Val(f.interest_coverage) < p.min_interest_coverage)
            /\ "CURRENT_RATIO_LOW" \in cs <=>
                   (~IsNone(f.current_ratio)
                    /\ Val(f.current_ratio) < p.min_current_ratio)
            /\ "FCF_WEAK" \in cs <=> fcf
            /\ \A cd \in {"DEBT_HIGH", "INTEREST_COVERAGE_LOW",
                          "CURRENT_RATIO_LOW", "FCF_WEAK"} :
                   CountCode(results[1].reasons, cd) <= 1
            /\ (debt /\ fcf) => results[1].rating = "Fail"

\* every gate reason at once: a field missing and all four thresholds violated
C6_Witness ==
    /\ Done /\ Single
    /\ {"MISSING_DATA", "DEBT_HIGH", "INTEREST_COVERAGE_LOW", "CURRENT_RATIO_LOW",
        "FCF_WEAK"} \subseteq Codes(results[1].reasons)
    /\ results[1].rating = "Fail"

\* Scenario B: the seven required fields present, PEG 0.8, combined growth 25%,
\* debt/equity <= 0.5, current ratio >= 1.5
ScenarioB(f) ==
    /\ Absent(f) = {}
    /\ LET g == Val(_combined_growth(f))
       IN  /\ g.num * Scale = 250 * g.den
           /\ Val(f.pe_ratio) * g.den * 10 = 8 * Scale * g.num
    /\ Val(f.debt_to_equity) <= 5
    /\ Val(f.current_ratio) >= 15

ScenarioBCall ==
    /\ Done /\ Single
    /\ TheProfile = PROFILES["balanced"]
    /\ config = DEFAULT_CONFIG
    /\ ScenarioB(fundamentals[1])

\* C7 as claimed: every Scenario B snapshot is rated "Strong" with score >= 80
\* under the balanced profile and default rubric, whatever its interest
\* coverage, FCF margin, operating margin, ROE and net-debt/EBITDA.
C7_ScenarioBAlwaysStrong ==
    ScenarioBCall => results[1].rating = "Strong" /\ results[1].score >= 80

\* C7 amended: a Scenario B snapshot is hard-failed (score 0, "Fail") when its
\* interest coverage is below 3 or its FCF margin below 1; otherwise its score
\* is 55 plus its quality and balance points and at least 69, and it is rated
\* "Strong" (score >= 80) exactly when quality and balance add up to 25 points
\* or more, and "Watch" when they do not.
C7_ScenarioBStrongIffQualityBalance ==
    ScenarioBCall =>
        LET f == fundamentals[1]
            r == results[1]
            b == Breakdown(f, PROFILES["balanced"], DEFAULT_CONFIG)
            failed == Val(f.interest_coverage) < 30 \/ Val(f.fcf_margin) < 10
        IN  IF failed
            THEN r.score = 0 /\ r.rating = "Fail"
            ELSE /\ r.score * 100 = 5500 + b.quality + b.balance
                 /\ r.score >= 69
                 /\ r.rating = "Strong" <=> b.quality + b.balance >= 2500
                 /\ r.rating = "Strong" <=> r.score >= 80
                 /\ r.rating \in {"Strong", "Watch"}

\* a Scenario B snapshot whose quality and balance give exactly 25: score 80
C7_Witness ==
    /\ ScenarioBCall
    /\ results[1].score = 80
    /\ results[1].rating = "Strong"

\* C8: with any risk-tolerance string other than exactly "conservative",
\* "balanced" or "aggressive" (the empty string and other casings included)
\* the call returns exactly what it returns with "balanced".
C8_UnknownKeyIsBalanced ==
    (Done /\ risk_tolerance \notin {"conservative", "balanced", "aggressive"}) =>
        results = screen_fundamentals(fundamentals, "balanced", config)

\* "Conservative" is screened, and not as "conservative" would be
C8_Witness ==
    /\ Done
    /\ risk_tolerance = "Conservative"
    /\ Len(results) >= 1
    /\ results # screen_fundamentals(fundamentals, "conservative", config)

\* C9: the PEG ratio is None whenever P/E is None, combined growth is None or
\* combined growth <= 0, and is P/E divided by combined growth otherwise; the
\* result's metrics echo this value.
C9_PegRatio ==
    (Done /\ Single) =>
        LET f   == fundamentals[1]
            g   == _combined_growth(f)
            peg == results[1].metrics.peg_ratio
        IN  IF IsNone(f.pe_ratio) \/ IsNone(g) \/ Val(g).num <= 0
            THEN IsNone(peg)
            ELSE /\ ~IsNone(peg)
                 /\ Val(peg).den > 0
                 \* peg * growth = pe
                 /\ Val(peg).num * Val(g).num * Scale
                        = Val(f.pe_ratio) * Val(peg).den * Val(g).den

\* P/E is present and combined growth is negative: no PEG
C9_Witness ==
    /\ Done /\ Single
    /\ ~IsNone(fundamentals[1].pe_ratio)
    /\ ~IsNone(_combined_growth(fundamentals[1]))
    /\ Val(_combined_growth(fundamentals[1])).num < 0
    /\ IsNone(results[1].metrics.peg_ratio)
    /\ "PEG_MISSING" \in Codes(results[1].reasons)

GrowthCodes ==
    {"GROWTH_STRONG", "GROWTH_HEALTHY", "GROWTH_MODERATE", "GROWTH_LOW", "GROWTH_WEAK"}

\* C10: combined growth is the single present value when one of revenue CAGR
\* and EPS growth is present, their half-sum when both are, and None exactly
\* when both are absent; an absent value is never counted as 0.  The growth
\* reason of the result carries that value.
C10_CombinedGrowth ==
    (Done /\ Single) =>
        LET f   == fundamentals[1]
            rev == f.revenue_cagr_5y
            eps == f.eps_growth_5y
            g   == _combined_growth(f)
            gr  == SelectSeq(results[1].reasons, LAMBDA x : x.code \in GrowthCodes)
        IN  /\ IsNone(g) <=> (IsNone(rev) /\ IsNone(eps))
            /\ (~IsNone(rev) /\ IsNone(eps)) => Val(g).num * Scale = Val(rev) * Val(g).den
            /\ (IsNone(rev) /\ ~IsNone(eps)) => Val(g).num * Scale = Val(eps) * Val(g).den
            /\ (~IsNone(rev) /\ ~IsNone(eps)) =>
                   2 * Val(g).num * Scale = (Val(rev) + Val(eps)) * Val(g).den
            /\ ~IsNone(g) => Val(g).den > 0 /\ Len(gr) = 1 /\ gr[1].value = g
            /\ IsNone(g) => gr = <<>> /\ "GROWTH_MISSING" \in Codes(results[1].reasons)

\* only EPS growth is present, 8%: the growth is 8% (moderate), not 4% (low)
C10_Witness ==
    /\ Done /\ Single
    /\ IsNone(fundamentals[1].revenue_cagr_5y)
    /\ fundamentals[1].eps_growth_5y = Some(80)
    /\ TheProfile = PROFILES["balanced"]
    /\ "GROWTH_MODERATE" \in Codes(results[1].reasons)

\* the quality and balance entries of a score breakdown are within their weights
WithinWeights(b, cfg) ==
    /\ b.quality <= cfg.quality_weight * 100
    /\ b.balance <= cfg.balance_weight * 100

TopTierCodes ==
    {"MARGIN_STRONG", "FCF_STRONG", "ROE_STRONG", "DEBT_LIGHT", "NET_DEBT_LOW",
     "COVERAGE_STRONG", "CURRENT_STRONG"}

\* C11: the quality score never exceeds config.quality_weight and the balance
\* score never exceeds config.balance_weight, for every snapshot, profile and
\* rubric, the snapshot with every sub-metric in its top tier included.
C11_QualityBalanceWithinWeight ==
    (Done /\ Single) =>
        WithinWeights(Breakdown(fundamentals[1], TheProfile, config), config)

\* all seven sub-metrics are in their top tier under an overriding rubric:
\* both dimensions sit exactly at their weights
C11_Witness ==
    /\ Done /\ Single
    /\ config # DEFAULT_CONFIG
    /\ config.quality_weight > 0 /\ config.balance_weight > 0
    /\ TopTierCodes \subseteq Codes(results[1].reasons)
    /\ QualityUncapped(fundamentals[1], config) = config.quality_weight * 100
    /\ BalanceUncapped(fundamentals[1], TheProfile, config) = config.balance_weight * 100

\* the only gate condition the snapshot violates is the liquidity floor
OnlyLowLiquidity(f, profile) ==
    /\ PassesGate(f, profile)
    /\ Val(f.current_ratio) < profile.min_current_ratio

\* the CURRENT_RATIO_LOW reasons of a result
LiquidityReasons(r) == SelectSeq(r.reasons, LAMBDA x : x.code = "CURRENT_RATIO_LOW")

RatingOf(failed, score) ==
    IF failed THEN "Fail"
    ELSE IF score >= 80 THEN "Strong"
    ELSE IF score >= 60 THEN "Watch"
    ELSE "Caution"

\* C13: the rating of every result is "Fail" when the company hard-failed,
\* else "Strong" from score 80, else "Watch" from score 60, else "Caution";
\* the rating is "Fail" exactly when the company hard-failed, and the
\* boundaries 80 and 60 belong to the higher rating.
C13_RatingFromScore ==
    Done => \A i \in DOMAIN results :
                /\ results[i].rating = RatingOf(HardFailed(results[i]), results[i].score)
                /\ results[i].rating = "Fail" <=> HardFailed(results[i])

\* a company that passed the gate with a final score of exactly 60 is "Watch"
C13_Witness ==
    /\ Done /\ Single
    /\ ~HardFailed(results[1])
    /\ results[1].score = 60
    /\ results[1].rating = "Watch"

\* the category the rubric gives n present growth rates that add up to s
\* tenths of a percent, and a P/E: the rates' mean is compared as s against
\* n times each boundary
CategoryFor(n, s, pe) ==
    IF n = 0 THEN "unknown"
    ELSE IF s >= 150 * n THEN "fast grower"
    ELSE IF s >= 80 * n THEN "stalwart"
    ELSE IF s >= 30 * n THEN "slow grower"
    ELSE IF s < 0 THEN "turnaround"
    ELSE IF pe # None /\ Val(pe) <= 120 THEN "asset play"
    ELSE "slow grower"

\* the present values among revenue CAGR and EPS growth
PresentGrowth(f) ==
    SelectSeq(<<f.revenue_cagr_5y, f.eps_growth_5y>>, LAMBDA o : o # None)

SumOfPresent(os) == SumSeq([i \in DOMAIN os |-> Val(os[i])])

\* C14: the category is a function of combined growth and P/E alone, whatever
\* the score, rating, hard-fail, profile and rubric: unknown growth gives
\* "unknown"; growth >= 15 "fast grower"; >= 8 "stalwart"; >= 3 "slow grower";
\* < 0 "turnaround"; growth in [0,3) "asset play" if P/E is present and <= 12,
\* else "slow grower".
C14_CategoryFromGrowthAndPe ==
    Done => \A i \in DOMAIN results :
                \E j \in DOMAIN fundamentals :
                    /\ fundamentals[j].ticker = results[i].ticker
                    /\ fundamentals[j].name = results[i].name
                    /\ results[i].category =
                           CategoryFor(Len(PresentGrowth(fundamentals[j])),
                                       SumOfPresent(PresentGrowth(fundamentals[j])),
                                       fundamentals[j].pe_ratio)

\* a hard-failed company (revenue CAGR missing) with growth 2% and a P/E of
\* exactly 12 is an asset play
C14_Witness ==
    /\ Done /\ Single
    /\ HardFailed(results[1])
    /\ fundamentals[1].pe_ratio = Some(120)
    /\ fundamentals[1].eps_growth_5y = Some(20)
    /\ results[1].score = 0
    /\ results[1].category = "asset play"

AllGrowthCodes == GrowthCodes \cup {"GROWTH_MISSING"}

\* the tier the rubric gives n present growth rates adding up to s tenths of
\* a percent: its reason code and the percentage of the growth weight it earns
GrowthTierFor(n, s, profile, cfg) ==
    IF n = 0 THEN <<"GROWTH_MISSING", 0>>
    ELSE IF s >= cfg.growth_strong * n THEN <<"GROWTH_STRONG", 100>>
    ELSE IF s >= cfg.growth_healthy * n THEN <<"GROWTH_HEALTHY", 80>>
    ELSE IF s >= cfg.growth_moderate * n THEN <<"GROWTH_MODERATE", 60>>
    ELSE IF s >= profile.growth_floor * n THEN <<"GROWTH_LOW", 32>>
    ELSE <<"GROWTH_WEAK", 8>>

\* the reasons of a result whose code is one of a set
ReasonsIn(r, codes) == SelectSeq(r.reasons, LAMBDA x : x.code \in codes)

GrowthAsClaimed(r, points, tier, cfg) ==
    /\ Len(ReasonsIn(r, AllGrowthCodes)) = 1
    /\ ReasonsIn(r, AllGrowthCodes)[1].code = tier[1]
    /\ points = cfg.growth_weight * tier[2]

\* C15: every company gets exactly one growth reason; the tier is the first
\* that matches among >= growth_strong (20), >= growth_healthy (12),
\* >= growth_moderate (8), >= the profile's growth floor, else, earning 1.0,
\* 0.8, 0.6, 0.32 and 0.08 of the growth weight with GROWTH_STRONG, _HEALTHY,
\* _MODERATE, _LOW and _WEAK; unknown growth earns 0 with GROWTH_MISSING.
\* Lower boundaries are inclusive.
C15_GrowthTiers ==
    (Done /\ Single) =>
        GrowthAsClaimed(results[1],
                        Breakdown(fundamentals[1], TheProfile, config).growth,
                        GrowthTierFor(Len(PresentGrowth(fundamentals[1])),
                                      SumOfPresent(PresentGrowth(fundamentals[1])),
                                      TheProfile, config),
                        config)

\* revenue CAGR 4% and EPS growth 12% under the balanced profile: combined
\* growth is exactly 8% and the reason is GROWTH_MODERATE, 0.6 of the weight
C15_Witness ==
    /\ Done /\ Single
    /\ risk_tolerance = "balanced"
    /\ config.growth_moderate = 80 /\ config.growth_weight = 25
    /\ fundamentals[1].revenue_cagr_5y = Some(40)
    /\ fundamentals[1].eps_growth_5y = Some(120)
    /\ Codes(results[1].reasons) \cap AllGrowthCodes = {"GROWTH_MODERATE"}
    /\ Breakdown(fundamentals[1], TheProfile, config).growth = 1500

ValueCodes == {"PEG_ATTRACTIVE", "PEG_FAIR", "PEG_RICH", "PEG_EXPENSIVE", "PEG_MISSING"}

\* the tier the rubric gives a PEG: its reason code, the reason's level and
\* the percentage of the value weight it earns
ValueTierFor(peg, cfg) ==
    IF peg = None THEN <<"PEG_MISSING", "warning", 0>>
    ELSE IF Val(peg).num * Scale <= cfg.peg_attractive * Val(peg).den
    THEN <<"PEG_ATTRACTIVE", "positive", 100>>
    ELSE IF Val(peg).num * Scale <= cfg.peg_fair * Val(peg).den
    THEN <<"PEG_FAIR", "positive", 80>>
    ELSE IF Val(peg).num * Scale <= cfg.peg_rich * Val(peg).den
    THEN <<"PEG_RICH", "warning", 55>>
    ELSE <<"PEG_EXPENSIVE", "negative", 25>>

ValueAsClaimed(r, points, tier, cfg) ==
    /\ Len(ReasonsIn(r, ValueCodes)) = 1
    /\ ReasonsIn(r, ValueCodes)[1].code = tier[1]
    /\ ReasonsIn(r, ValueCodes)[1].level = tier[2]
    /\ points = cfg.value_weight * tier[3]

\* C16: every company gets exactly one value reason; PEG <= peg_attractive
\* (1.0) earns the full value weight with PEG_ATTRACTIVE, else <= peg_fair
\* (1.5) 0.8 of it with PEG_FAIR, else <= peg_rich (2.0) 0.55 of it with
\* PEG_RICH, else 0.25 of it with PEG_EXPENSIVE; an unknown PEG earns 0 with
\* PEG_MISSING at level warning.  Upper boundaries are inclusive.
C16_ValueTiers ==
    (Done /\ Single) =>
        ValueAsClaimed(results[1],
                       Breakdown(fundamentals[1], TheProfile, config).value,
                       ValueTierFor(results[1].metrics.peg_ratio, config),
                       config)

\* a PEG of exactly 2.0 is PEG_RICH and earns 0.55 of the value weight
C16_Witness ==
    /\ Done /\ Single
    /\ results[1].metrics.peg_ratio # None
    /\ Val(results[1].metrics.peg_ratio).num = 2 * Val(results[1].metrics.peg_ratio).den
    /\ config.peg_rich = 20 /\ config.value_weight = 30
    /\ Codes(results[1].reasons) \cap ValueCodes = {"PEG_RICH"}
    /\ Breakdown(fundamentals[1], TheProfile, config).value = 1650

GateCodes == HardFailCodes \cup {"CURRENT_RATIO_LOW"}

QualityCodesOf ==
    [operating_margin |-> {"MARGIN_STRONG", "MARGIN_OK", "MARGIN_THIN"},
     fcf_margin |-> {"FCF_STRONG", "FCF_OK", "FCF_THIN"},
     roe |-> {"ROE_STRONG", "ROE_OK", "ROE_WEAK"}]

BalanceCodesOf ==
    [debt_to_equity |-> {"DEBT_LIGHT", "DEBT_MANAGEABLE"},
     net_debt_to_ebitda |-> {"NET_DEBT_LOW", "NET_DEBT_OK", "NET_DEBT_HIGH"},
     interest_coverage |-> {"COVERAGE_STRONG", "COVERAGE_OK"},
     current_ratio |-> {"CURRENT_STRONG", "CURRENT_OK"}]

MetricNames ==
    {"pe_ratio", "peg_ratio", "revenue_cagr_5y", "eps_growth_5y", "operating_margin",
     "fcf_margin", "roe", "debt_to_equity", "net_debt_to_ebitda", "interest_coverage",
     "current_ratio"}

\* the positions of the reasons of a result whose code is one of a set
Positions(r, codes) == {i \in DOMAIN r.reasons : r.reasons[i].code \in codes}

Before(I, J) == \A i \in I, j \in J : i < j

\* the reasons the four scorers give a snapshot when run on an empty list
DimensionReasons(f, profile, cfg) ==
    _score_balance(f, profile,
        _score_quality(f,
            _score_growth(f, profile,
                _score_value(f, _peg_ratio(f), <<>>, cfg).reasons, cfg).reasons,
            cfg).reasons,
        cfg).reasons

\* gate reasons first, then one value reason, one growth reason, one quality
\* reason per present quality sub-metric, and the balance reasons, each from a
\* present sub-metric
FullyReasoned(r, f) ==
    /\ Cardinality(Positions(r, ValueCodes)) = 1
    /\ Cardinality(Positions(r, AllGrowthCodes)) = 1
    /\ \A n \in DOMAIN QualityCodesOf :
           Cardinality(Positions(r, QualityCodesOf[n])) = IF f[n] = None THEN 0 ELSE 1
    /\ \A n \in DOMAIN BalanceCodesOf :
           Cardinality(Positions(r, BalanceCodesOf[n])) <= IF f[n] = None THEN 0 ELSE 1
    /\ Before(Positions(r, GateCodes), Positions(r, ValueCodes))
    /\ Before(Positions(r, ValueCodes), Positions(r, AllGrowthCodes))
    /\ Before(Positions(r, AllGrowthCodes),
              DOMAIN r.reasons \ Positions(r, GateCodes \cup ValueCodes \cup AllGrowthCodes))

\* the eleven metrics of a result: the snapshot's ten and the computed PEG
FullyEchoed(r, f) ==
    /\ DOMAIN r.metrics = MetricNames
    /\ \A n \in MetricNames \ {"peg_ratio"} : r.metrics[n] = f[n]
    /\ r.metrics.peg_ratio = _peg_ratio(f)

\* C17: a hard-failed company still goes through the four scorers: after the
\* gate reasons its reasons hold exactly one value reason, exactly one growth
\* reason and the quality and balance reasons of its present sub-metrics, the
\* very reasons the scorers give the snapshot; its metrics are the same eleven
\* entries, computed PEG included, as a passing company's; only its score (0)
\* and its rating ("Fail") are forced.
C17_HardFailFullyPopulated ==
    (Done /\ Single /\ HardFailed(results[1])) =>
        /\ results[1].score = 0 /\ results[1].rating = "Fail"
        /\ FullyReasoned(results[1], fundamentals[1])
        /\ ReasonsIn(results[1], GateCodes) \o
               DimensionReasons(fundamentals[1], TheProfile, config)
             = results[1].reasons
        /\ FullyEchoed(results[1], fundamentals[1])
        /\ results[1].category = _category_for_fundamentals(fundamentals[1])

\* a company above the debt ceiling and otherwise top-tier: DEBT_HIGH, then
\* the value, growth, three quality and three balance reasons, PEG echoed
C17_Witness ==
    /\ Done /\ Single
    /\ Codes(results[1].reasons) \cap GateCodes = {"DEBT_HIGH"}
    /\ results[1].rating = "Fail"
    /\ results[1].metrics.peg_ratio # None
    /\ Len(results[1].reasons) = 9
    /\ results[1].reasons[2].code = "PEG_ATTRACTIVE"
    /\ results[1].reasons[9].code = "CURRENT_STRONG"

\* the one-to-one maps from output positions to input positions
Matchings(n) == {p \in [1..n -> 1..n] : \A i, j \in 1..n : p[i] = p[j] => i = j}

\* every result is the result of the snapshot the matching gives it
FromSnapshot(p) ==
    \A i \in DOMAIN results :
        /\ results[i].ticker = fundamentals[p[i]].ticker
        /\ results[i].name = fundamentals[p[i]].name

\* results with equal scores stand in the order of their snapshots
KeepsTiesInOrder(p) ==
    \A i, j \in DOMAIN results :
        (i < j /\ results[i].score = results[j].score) => p[i] < p[j]

\* C18: the ranking is a stable sort: two results with equal scores appear in
\* the relative order of their snapshots in the input batch; in particular the
\* hard-failed companies, tied at 0, keep their input order at the end.
C18_StableRanking ==
    Done =>
        /\ Len(results) = Len(fundamentals)
        /\ \E p \in Matchings(Len(results)) : FromSnapshot(p) /\ KeepsTiesInOrder(p)

\* two different hard-failed companies given ahead of a passing one come back
\* behind it, in their input order
C18_Witness ==
    /\ Done
    /\ Len(fundamentals) = 3
    /\ results[1].score > 0 /\ results[2].score = 0 /\ results[3].score = 0
    /\ results[1].ticker = fundamentals[3].ticker
    /\ results[2].ticker = fundamentals[1].ticker
    /\ results[3].ticker = fundamentals[2].ticker
    /\ Cardinality({results[1].ticker, results[2].ticker, results[3].ticker}) = 3

\* every result is the whole result _score_one gives the matched snapshot
ScoredFromSnapshot(p) ==
    \A i \in DOMAIN results :
        /\ results[i] = _score_one(fundamentals[p[i]], TheProfile, config)
        /\ results[i].ticker = fundamentals[p[i]].ticker
        /\ results[i].name = fundamentals[p[i]].name

\* C19: one ScreenResult per input snapshot: the output is as long as the
\* batch and is a permutation of the per-snapshot results, each with the
\* ticker and name of its snapshot; nothing is dropped, duplicated or merged,
\* with hard-failed companies, duplicate tickers or an empty batch alike.
C19_OneResultPerSnapshot ==
    Done =>
        /\ Len(results) = Len(fundamentals)
        /\ \E p \in Matchings(Len(fundamentals)) : ScoredFromSnapshot(p)
        /\ fundamentals = <<>> => results = <<>>

\* a batch of three with the ticker AAA twice and a hard-failed company
\* returns three results, both AAA entries among them
C19_Witness ==
    /\ Done
    /\ Len(fundamentals) = 3 /\ Len(results) = 3
    /\ Cardinality({i \in 1..3 : results[i].ticker = "AAA"}) = 2
    /\ {"Alpha", "Alpha again"} \subseteq {results[i].name : i \in 1..3}
    /\ \E i \in 1..3 : HardFailed(results[i])

\* C20: for a company that did not hard-fail, the final score is the raw
\* score, the sum of the four contributions, rounded to the nearest integer:
\* it is an integer within 1/2 of the raw score; the rating thresholds 80 and
\* 60 apply to this rounded score, not to the raw sum.
C20_ScoreIsRoundedRaw ==
    (Done /\ Single /\ ~HardFailed(results[1])) =>
        /\ results[1].score \in Int
        /\ 100 * results[1].score - RawScore(fundamentals[1], TheProfile, config) \in -50..50
        /\ results[1].rating = RatingOf(FALSE, results[1].score)

\* a raw score below 80 that rounds to 80 is rated Strong
C20_Witness ==
    /\ Done /\ Single
    /\ ~HardFailed(results[1])
    /\ RawScore(fundamentals[1], TheProfile, config) \in 7950..7999
    /\ results[1].score = 80
    /\ results[1].rating = "Strong"

\* the result of a company screened alone
Alone(f) == screen_fundamentals(<<f>>, risk_tolerance, config)[1]

IsPrefix(s, t) == Len(s) <= Len(t) /\ SubSeq(t, 1, Len(s)) = s

\* the reasons a frame holds are the first reasons of its own company's
\* result, and a returned result is the result of the company screened alone
OwnReasonsOnly(frame, alone) ==
    /\ IsPrefix(frame.reasons, alone.reasons)
    /\ frame.result # None => Val(frame.result) = alone

\* C21: scoring is per company and deterministic: whatever the order in which
\* the steps of the per-company scorings interleave, every company's reasons
\* are its own, in emission order; its result is the one it gets when
\* screened alone, at any position of any batch; and the ranked output is the
\* output of the call on the same inputs run in one piece.
C21_IndependentScoring ==
    /\ \A i \in DOMAIN frames : OwnReasonsOnly(frames[i], Alone(fundamentals[i]))
    /\ Done => results = screen_fundamentals(fundamentals, risk_tolerance, config)

\* two different companies, the second already returned (hard-failed) while
\* the first is between its growth and quality scorers
C21_Witness ==
    /\ Len(frames) = 2
    /\ fundamentals[1].ticker # fundamentals[2].ticker
    /\ frames[1].stage = "growth" /\ frames[1].reasons # <<>>
    /\ frames[2].stage = "returned"
    /\ HardFailed(Val(frames[2].result))
    /\ ~frames[1].hard_fail

QualityTopCodes == {"MARGIN_STRONG", "FCF_STRONG", "ROE_STRONG"}

\* operating margin, FCF margin and ROE all hit their top tier
AllQualityTop(r) == QualityTopCodes \subseteq Codes(r.reasons)

\* C22 as stated: when operating margin, FCF margin and ROE all hit their top
\* tier, the uncapped sum of the three contributions exceeds the quality
\* weight, and only the cap brings the quality score down to the weight.
C22_TopTierSumExceedsWeight ==
    (Done /\ Single /\ AllQualityTop(results[1])) =>
        /\ QualityUncapped(fundamentals[1], config) > config.quality_weight * 100
        /\ Breakdown(fundamentals[1], TheProfile, config).quality
               = config.quality_weight * 100

\* C22, amended: the top-tier fractions 0.40, 0.32 and 0.28 add up to exactly
\* 1.0: the uncapped sum of the quality contributions never exceeds the
\* quality weight, the cap never lowers it, and with all three sub-metrics in
\* their top tier the uncapped sum is the quality weight itself.
C22_TopTierSumIsWeight ==
    (Done /\ Single) =>
        /\ QualityUncapped(fundamentals[1], config) <= config.quality_weight * 100
        /\ Breakdown(fundamentals[1], TheProfile, config).quality
               = QualityUncapped(fundamentals[1], config)
        /\ AllQualityTop(results[1]) =>
               QualityUncapped(fundamentals[1], config) = config.quality_weight * 100

\* all three quality sub-metrics in their top tier under the default rubric:
\* 10 + 8 + 7 points, the weight of 25, with nothing for the cap to cut
C22_Witness ==
    /\ Done /\ Single
    /\ config = DEFAULT_CONFIG
    /\ AllQualityTop(results[1])
    /\ QualityUncapped(fundamentals[1], config) = 2500
    /\ Breakdown(fundamentals[1], TheProfile, config).quality = 2500

\* P/E is present and zero or negative, and combined growth is above 0
NonPositivePeWithGrowth(f) ==
    /\ f.pe_ratio # None /\ Val(f.pe_ratio) <= 0
    /\ PresentGrowth(f) # <<>> /\ SumOfPresent(PresentGrowth(f)) > 0

AttractiveAtFullWeight(r, points, cfg) ==
    /\ r.metrics.peg_ratio # None
    /\ Val(r.metrics.peg_ratio).num <= 0 /\ Val(r.metrics.peg_ratio).den > 0
    /\ Val(r.metrics.peg_ratio).num * Scale <= cfg.peg_attractive * Val(r.metrics.peg_ratio).den
    /\ Len(ReasonsIn(r, ValueCodes)) = 1
    /\ ReasonsIn(r, ValueCodes)[1].code = "PEG_ATTRACTIVE"
    /\ ReasonsIn(r, ValueCodes)[1].level = "positive"
    /\ points = cfg.value_weight * 100

\* C23: the screener's PEG does not guard the sign of P/E: with P/E <= 0 and
\* combined growth > 0 the PEG is <= 0, hence <= peg_attractive, and the
\* company gets the full value weight (30 by default) with a positive
\* PEG_ATTRACTIVE reason, whereas compute_peg_ratio gives unknown for it.
C23_NonPositivePeIsAttractive ==
    (Done /\ Single /\ NonPositivePeWithGrowth(fundamentals[1])) =>
        /\ AttractiveAtFullWeight(results[1],
                                  Breakdown(fundamentals[1], TheProfile, config).value,
                                  config)
        /\ compute_peg_ratio(fundamentals[1].pe_ratio,
                             _combined_growth(fundamentals[1])) = None

\* a P/E of -5 with 25% growth under the default rubric: 30 value points and
\* a rating of Strong
C23_Witness ==
    /\ Done /\ Single
    /\ config = DEFAULT_CONFIG
    /\ fundamentals[1].pe_ratio = Some(-50)
    /\ NonPositivePeWithGrowth(fundamentals[1])
    /\ "PEG_ATTRACTIVE" \in Codes(results[1].reasons)
    /\ Breakdown(fundamentals[1], TheProfile, config).value = 3000
    /\ results[1].rating = "Strong"

\* the result of the one company of the call under another risk tolerance
Under(key) == screen_fundamentals(fundamentals, key, config)[1]

\* three results of one snapshot, from the strictest profile to the loosest
NestedInStrictness(strict, middle, loose) ==
    /\ HardFailed(loose) => HardFailed(middle)
    /\ HardFailed(middle) => HardFailed(strict)
    /\ loose.rating = "Fail" => middle.rating = "Fail"
    /\ middle.rating = "Fail" => strict.rating = "Fail"
    /\ strict.score <= middle.score
    /\ middle.score <= loose.score

\* C24: under the default rubric the three profiles are nested in
\* strictness: a hard-fail under "aggressive" is one under "balanced", and one
\* under "balanced" is one under "conservative"; the scores satisfy
\* score(conservative) <= score(balanced) <= score(aggressive).
C24_ProfilesNested ==
    (Done /\ Single /\ config = DEFAULT_CONFIG /\ risk_tolerance = "balanced") =>
        NestedInStrictness(Under("conservative"), results[1], Under("aggressive"))

\* one snapshot that fails under conservative, passes under balanced, and
\* scores higher still under aggressive
C24_Witness ==
    /\ Done /\ Single /\ config = DEFAULT_CONFIG /\ risk_tolerance = "balanced"
    /\ Under("conservative").rating = "Fail"
    /\ results[1].score > 0
    /\ Under("aggressive").score > results[1].score

\* the gate reason of a balance metric and the credit reasons of that metric
GateVersusCredit ==
    {<<"DEBT_HIGH", BalanceCodesOf.debt_to_equity, 1>>,
     <<"INTEREST_COVERAGE_LOW", BalanceCodesOf.interest_coverage, 3>>,
     <<"CURRENT_RATIO_LOW", BalanceCodesOf.current_ratio, 4>>}

\* no result holds a gate reason next to a credit reason of the same metric
NoCreditForTrippedMetric(r) ==
    \A gc \in GateVersusCredit :
        gc[1] \in Codes(r.reasons) => Codes(r.reasons) \cap gc[2] = {}

\* the sub-checks of the tripped metrics added nothing to the balance score
TrippedScoresNothing(r, parts) ==
    \A gc \in GateVersusCredit :
        gc[1] \in Codes(r.reasons) => parts[gc[3]].score = 0

\* C25: under the default rubric and each profile, DEBT_HIGH never appears
\* with DEBT_LIGHT or DEBT_MANAGEABLE, INTEREST_COVERAGE_LOW never with
\* COVERAGE_STRONG or COVERAGE_OK, CURRENT_RATIO_LOW never with CURRENT_STRONG
\* or CURRENT_OK; a metric that trips its gate check adds 0 to the balance
\* dimension.
C25_NoCreditForTrippedMetric ==
    (Done /\ config = DEFAULT_CONFIG) =>
        /\ \A i \in DOMAIN results : NoCreditForTrippedMetric(results[i])
        /\ Single => TrippedScoresNothing(results[1],
                         BalanceParts(fundamentals[1], TheProfile, config))

\* debt above the ceiling, coverage and current ratio below their floors:
\* the only balance points are the 6 of a low net debt
C25_Witness ==
    /\ Done /\ Single /\ config = DEFAULT_CONFIG
    /\ {"DEBT_HIGH", "INTEREST_COVERAGE_LOW", "CURRENT_RATIO_LOW"}
           \subseteq Codes(results[1].reasons)
    /\ "NET_DEBT_LOW" \in Codes(results[1].reasons)
    /\ Breakdown(fundamentals[1], TheProfile, config).balance = 600

====
